---- MODULE Spec2Model ----
(***************************************************************************)
(* Storage with a durable (relational) backend and an in-memory fallback,  *)
(* and the HTTP handlers that use it: registration, login, current user,   *)
(* patients, patient history, drug-interaction checks, recommendations.    *)
(*                                                                         *)
(* One action is one request handler, run from the session middleware to   *)
(* the response.  POST /api/register is two actions, because the check of  *)
(* the login name and the insert are separated by the password-hash await. *)
(* Every call on the durable backend may fail (input `up`).                *)
(***************************************************************************)
EXTENDS Integers, Sequences, FiniteSets, TLC

\* ------------------------------------------------------------------ bounds
MaxRecords == 3                      \* create calls in one behaviour
MaxClinical == 1                     \* of them, by the clinical routes
Clients == {"c1", "c2"}              \* browsers, one session cookie each
Usernames == {"alice", "bob"}
Passwords == {"pw1", "pw2"}          \* passwords tried at login
RegPasswords == {"pw1"}              \* passwords chosen at registration
Salts == {"s1"}                      \* outcomes of randomBytes(16)
PatientNames == {"Jane"}
PatientIds == {0, 1, 2}               \* patientId of an interaction check
MedLists == {<<>>, <<"A">>, <<"A", "B">>}   \* medications of a check
AiOutcomes == {"data", "fallback", "throw"}
BodyIds == {2}                       \* id fields a register body may carry
BodyRoles == {"admin"}               \* role fields it may carry

\* ------------------------------------------------------------------- state
VARIABLES
  dbConfigured,      \* db.ts: db is non-null iff DATABASE_URL is set
  apiKey,            \* ai.ts: process.env.OPENAI_API_KEY is set
  dbUsers,           \* rows of table users, in insertion order
  dbPatients,        \* rows of table patients
  dbInteractions,    \* rows of table drug_interactions
  dbSeq,             \* next value of the serial sequence of each table
  users,             \* MemStorage.users  (Map, in insertion order)
  patients,          \* MemStorage.patients
  drugInteractions,  \* MemStorage.drugInteractions
  currentId,         \* MemStorage.currentId
  session,           \* session[c]: req.session.passport.user, 0 when absent
  regPc,             \* position of the register handler of client c
  regBody,           \* req.body of the register request in flight
  resp,              \* the last response sent
  effects,           \* history: Storage and AI calls of the last request step
  calls,             \* history: the Storage calls of the last handler step
  created,           \* history: what the create calls returned, in call order
  dbAnswered,        \* history: some durable call has succeeded
  pending            \* create calls suspended at await db.insert(...)

cfgVars == <<dbConfigured, apiKey>>
dbVars == <<dbUsers, dbPatients, dbInteractions, dbSeq>>
memVars == <<users, patients, drugInteractions, currentId>>
regVars == <<regPc, regBody>>
vars == <<dbConfigured, apiKey, dbUsers, dbPatients, dbInteractions, dbSeq,
          users, patients, drugInteractions, currentId, session, regPc,
          regBody, resp, effects, calls, created, dbAnswered, pending>>

\* ----------------------------------------------------------------- helpers
Undefined == [undefined |-> TRUE]
NoField == "<absent>"

\* Array.prototype.find over the matching elements, and rows[0] of a select
FirstOf(seq) == IF Len(seq) = 0 THEN Undefined ELSE seq[1]

\* an object literal { a, ...b }: the spread is written last and wins
SpreadLast(a, b) ==
  [f \in DOMAIN a \cup DOMAIN b |-> IF f \in DOMAIN a THEN a[f] ELSE b[f]]

\* an object literal { ...a, b }: what is written after the spread wins
Spread(a, b) ==
  [f \in DOMAIN a \cup DOMAIN b |-> IF f \in DOMAIN b THEN b[f] ELSE a[f]]

\* a map that keeps only the entry set last
MapSetEvict(m, id, rec) == <<rec>>

\* Map.prototype.set: an existing key keeps its position, a new key is last
MapSet(m, id, rec) ==
  IF \E i \in 1..Len(m) : m[i].id = id
  THEN [i \in 1..Len(m) |-> IF m[i].id = id THEN rec ELSE m[i]]
  ELSE Append(m, rec)

\* scrypt(password, salt, 64): a one-way function of both arguments
Scrypt(password, salt) == <<"scrypt", password, salt>>

\* `${buf.toString("hex")}.${salt}`
hashPassword(password, salt) ==
  [salt |-> salt, hashed |-> Scrypt(password, salt)]

\* stored.split("."), scrypt of the supplied password, timingSafeEqual
comparePasswords(supplied, stored) ==
  Scrypt(supplied, stored.salt) = stored.hashed

\* ------------------------------------------------- the durable backend (db)
\* users.username is unique()
DbUsernameFree(username) ==
  \A i \in 1..Len(dbUsers) : dbUsers[i].username # username

\* drug_interactions.patient_id references patients.id
DbPatientExists(patientId) ==
  \E i \in 1..Len(dbPatients) : dbPatients[i].id = patientId

\* id is the primary key of its table
DbIdFree(table, id) == \A i \in 1..Len(table) : table[i].id # id

\* serial("id"): an insert that carries no id takes the next value of the
\* table's sequence, and the value is consumed even when the insert then
\* violates a constraint; an insert that carries an id leaves the sequence
HasId(values) == "id" \in DOMAIN values
DbNextId(seq, values) == IF HasId(values) THEN values.id ELSE seq
DbSeqAfter(seq, values, up) ==
  IF dbConfigured /\ up /\ ~HasId(values) THEN seq + 1 ELSE seq

\* --------------------------------------------------- Storage: the read calls
MemGetUser(id) == FirstOf(SelectSeq(users, LAMBDA u : u.id = id))
MemGetUserByUsername(username) ==
  FirstOf(SelectSeq(users, LAMBDA u : u.username = username))
MemGetPatientById(id) == FirstOf(SelectSeq(patients, LAMBDA p : p.id = id))
MemGetPatientDrugInteractions(patientId) ==
  SelectSeq(drugInteractions, LAMBDA d : d.patientId = patientId)

getUser(id, up) ==
  IF dbConfigured /\ up
  THEN FirstOf(SelectSeq(dbUsers, LAMBDA u : u.id = id))
  ELSE MemGetUser(id)

\* getUserByUsername whose catch block returns instead of falling through
getUserByUsernameNoFallback(username, up) ==
  IF dbConfigured
  THEN IF up
       THEN FirstOf(SelectSeq(dbUsers, LAMBDA u : u.username = username))
       ELSE Undefined
  ELSE MemGetUserByUsername(username)

getUserByUsername(username, up) ==
  IF dbConfigured /\ up
  THEN FirstOf(SelectSeq(dbUsers, LAMBDA u : u.username = username))
  ELSE MemGetUserByUsername(username)

getPatients(up) ==
  IF dbConfigured /\ up THEN dbPatients ELSE patients

\* getPatientById that looks in the map when the table has no such row
getPatientByIdMerged(id, up) ==
  IF dbConfigured /\ up /\ ~DbIdFree(dbPatients, id)
  THEN FirstOf(SelectSeq(dbPatients, LAMBDA p : p.id = id))
  ELSE MemGetPatientById(id)

getPatientById(id, up) ==
  IF dbConfigured /\ up
  THEN FirstOf(SelectSeq(dbPatients, LAMBDA p : p.id = id))
  ELSE MemGetPatientById(id)

getPatientDrugInteractions(patientId, up) ==
  IF dbConfigured /\ up
  THEN SelectSeq(dbInteractions, LAMBDA d : d.patientId = patientId)
  ELSE MemGetPatientDrugInteractions(patientId)

\* timestamp("created_at").defaultNow(): the time of the insert, filled in by
\* the database for a row inserted without the column
DefaultNow == "now"

\* ------------------------------------------------- Storage: the create calls
\* Each returns the record it returns to its caller (result), the backend
\* that served it, and the table, map and counter as the call leaves them.

\* const id = this.currentId++; this.users.set(id, user); return user
MemCreateUser(insertUser) ==
  LET user == [id |-> currentId,
               password |-> insertUser.password,
               username |-> insertUser.username,
               role |-> Spread(insertUser, [role |-> "doctor"]).role]
  IN [currentId |-> currentId + 1, seq |-> dbSeq, table |-> dbUsers,
      served |-> "mem", result |-> user,
      map |-> MapSet(users, currentId, user)]

\* the in-memory path with const id = this.currentId, the counter left as is
MemCreatePatientSameId(patient) ==
  LET newPatient == [id |-> currentId,
                     name |-> patient.name, ehrData |-> patient.ehrData]
  IN [currentId |-> currentId, seq |-> dbSeq, table |-> dbPatients,
      served |-> "mem",
      result |-> newPatient, map |-> MapSet(patients, currentId, newPatient)]

MemCreatePatient(patient) ==
  LET newPatient == [id |-> currentId,
                     name |-> patient.name, ehrData |-> patient.ehrData]
  IN [currentId |-> currentId + 1, seq |-> dbSeq, table |-> dbPatients,
      served |-> "mem",
      result |-> newPatient, map |-> MapSet(patients, currentId, newPatient)]

MemCreateDrugInteraction(interaction) ==
  LET newInteraction ==
        [id |-> currentId,
         patientId |-> interaction.patientId,
         medications |-> interaction.medications,
         interactionsDetected |-> interaction.interactionsDetected]
  IN [currentId |-> currentId + 1, seq |-> dbSeq, table |-> dbInteractions,
      served |-> "mem",
      result |-> newInteraction,
      map |-> MapSet(drugInteractions, currentId, newInteraction)]

\* db.insert(users).values({ ...insertUser, role: "doctor" }).returning()
createUser(insertUser, up) ==
  LET seq == [dbSeq EXCEPT
                !.users = DbSeqAfter(dbSeq.users, insertUser, up)]
      row == [id |-> DbNextId(dbSeq.users, insertUser),
              password |-> insertUser.password,
              username |-> insertUser.username,
              role |-> Spread(insertUser, [role |-> "doctor"]).role]
  IN IF /\ dbConfigured /\ up
        /\ DbUsernameFree(insertUser.username)
        /\ DbIdFree(dbUsers, row.id)
     THEN [currentId |-> currentId, seq |-> seq, table |-> Append(dbUsers, row),
           served |-> "db", result |-> row, map |-> users]
     ELSE [MemCreateUser(insertUser) EXCEPT !.seq = seq]

\* createPatient that also keeps a copy in the map of what it inserted
createPatientWriteThrough(patient, up) ==
  LET seq == [dbSeq EXCEPT
                !.patients = DbSeqAfter(dbSeq.patients, patient, up)]
      row == [id |-> DbNextId(dbSeq.patients, patient),
              name |-> patient.name, ehrData |-> patient.ehrData,
              createdAt |-> DefaultNow]
  IN IF dbConfigured /\ up /\ DbIdFree(dbPatients, row.id)
     THEN [currentId |-> currentId, seq |-> seq,
           table |-> Append(dbPatients, row),
           served |-> "db", result |-> row,
           map |-> MapSet(patients, row.id, row)]
     ELSE [MemCreatePatient(patient) EXCEPT !.seq = seq]

createPatient(patient, up) ==
  LET seq == [dbSeq EXCEPT
                !.patients = DbSeqAfter(dbSeq.patients, patient, up)]
      row == [id |-> DbNextId(dbSeq.patients, patient),
              name |-> patient.name, ehrData |-> patient.ehrData,
              createdAt |-> DefaultNow]
  IN IF dbConfigured /\ up /\ DbIdFree(dbPatients, row.id)
     THEN [currentId |-> currentId, seq |-> seq,
           table |-> Append(dbPatients, row),
           served |-> "db", result |-> row, map |-> patients]
     ELSE [MemCreatePatient(patient) EXCEPT !.seq = seq]

createDrugInteraction(interaction, up) ==
  LET seq == [dbSeq EXCEPT
                !.interactions =
                   DbSeqAfter(dbSeq.interactions, interaction, up)]
      row == [id |-> DbNextId(dbSeq.interactions, interaction),
              patientId |-> interaction.patientId,
              medications |-> interaction.medications,
              interactionsDetected |-> interaction.interactionsDetected]
  IN IF /\ dbConfigured /\ up
        /\ DbPatientExists(interaction.patientId)
        /\ DbIdFree(dbInteractions, row.id)
     THEN [currentId |-> currentId, seq |-> seq,
           table |-> Append(dbInteractions, row),
           served |-> "db", result |-> row, map |-> drugInteractions]
     ELSE [MemCreateDrugInteraction(interaction) EXCEPT !.seq = seq]

\* ------------------------------------------------------- history of a step
\* One Storage call: what it returned, and what the in-memory maps answer.
ReadCall(op, arg, up, result, mem) ==
  [served |-> IF dbConfigured /\ up THEN "db" ELSE "mem", result |-> result,
   op |-> op,
   arg |-> arg,
   mem |-> mem, dbFailed |-> dbConfigured /\ ~up]

CreateCall(op, arg, r, mem, held) ==
  [served |-> r.served, result |-> r.result, op |-> op,
   arg |-> arg, mem |-> mem,
   dbFailed |-> dbConfigured /\ r.served = "mem", held |-> held]

AnsweredBy(cs) == \E i \in 1..Len(cs) : cs[i].served = "db"

\* one request to a clinical route: the passport user its session held, the
\* Storage operations it called (the session's getUser included) and the
\* number of calls it made to the AI collaborator with what the call came to
Effects(user, cs, n, reply) ==
  [session |-> user, reply |-> IF n = 0 THEN "none" ELSE reply,
   storage |-> [i \in 1..Len(cs) |-> cs[i].op], ai |-> n]
NoEffects == [session |-> 0, reply |-> "none", storage |-> <<>>, ai |-> 0]

\* -------------------------------------------------- responses and sessions
Text(t) == [kind |-> "text", text |-> t]
Json(v) == [kind |-> "json", value |-> v]
NoReq == [none |-> TRUE]
NoResp == [client |-> NoField, route |-> NoField, status |-> 0,
           body |-> Text(""), req |-> NoReq]
\* req: the fields of the request that its handler read
Response(c, route, status, body, req) ==
  [client |-> c, route |-> route, status |-> status, body |-> body,
   req |-> req]

\* passport.session(): deserializeUser of the id the session holds
deserializeUser(c, up) ==
  IF session[c] = 0 THEN Undefined ELSE getUser(session[c], up)

isAuthenticated(c, up) == deserializeUser(c, up) # Undefined

SessionCalls(c, up) ==
  IF session[c] = 0 THEN <<>>
  ELSE <<ReadCall("getUser", session[c], up, getUser(session[c], up),
                  MemGetUser(session[c]))>>

\* a session whose account is not found loses its passport user
SessionAfter(c, up) ==
  IF isAuthenticated(c, up) THEN session ELSE [session EXCEPT ![c] = 0]

LoginHeld(username) ==
  \/ \E i \in 1..Len(users) : users[i].username = username
  \/ \E i \in 1..Len(dbUsers) : dbUsers[i].username = username

\* a durable call is made, and so can fail, only when db is configured; the
\* session middleware calls getUser only when the session holds an id
DbUp == IF dbConfigured THEN BOOLEAN ELSE {FALSE}
SessUp(c) == IF dbConfigured /\ session[c] # 0 THEN BOOLEAN ELSE {FALSE}

\* the inputs a handler does not come to read make no difference to what it
\* does: one value stands for all of them
Given(read, values) ==
  IF read THEN values ELSE {CHOOSE v \in values : TRUE}

\* what a call of the AI collaborator can come to: "data" is a usable reply,
\* "throw" a failure with status 429 or 401 or a network failure, "fallback"
\* any other failure.  Without an API key no call returns data.
AiReplies == IF apiKey THEN AiOutcomes ELSE AiOutcomes \ {"data"}

\* ----------------------------------------------------------------- Init
Init ==
  /\ dbConfigured \in BOOLEAN
  /\ apiKey \in BOOLEAN
  /\ dbUsers = <<>> /\ dbPatients = <<>> /\ dbInteractions = <<>>
  /\ dbSeq = [users |-> 1, patients |-> 1, interactions |-> 1]
  /\ users = <<>> /\ patients = <<>> /\ drugInteractions = <<>>
  /\ currentId = 1
  /\ session = [c \in Clients |-> 0]
  /\ regPc = [c \in Clients |-> "idle"]
  /\ regBody = [c \in Clients |-> NoReq]
  /\ resp = NoResp
  /\ effects = NoEffects
  /\ calls = <<>>
  /\ created = <<>>
  /\ dbAnswered = FALSE
  /\ pending = <<>>

\* Storage and the authentication routes never read the API key: their
\* specifications start with the key set
InitKeySet == Init /\ apiKey = TRUE

\* --------------------------------------------------- POST /api/register
\* up to the await of hashPassword, for one request body
RegisterCheckBody(c, body) ==
  /\ regPc[c] = "idle"
  /\ \E upS \in SessUp(c), up \in DbUp :
       LET existingUser == getUserByUsername(body.username, up)
           cs == SessionCalls(c, upS) \o
                 <<ReadCall("getUserByUsername", body.username, up,
                            existingUser,
                            MemGetUserByUsername(body.username))>>
       IN /\ IF existingUser # Undefined
             THEN /\ resp' = Response(c, "register", 400,
                                      Text("Username already exists"), body)
                  /\ UNCHANGED regVars
             ELSE /\ regPc' = [regPc EXCEPT ![c] = "hashing"]
                  /\ regBody' = [regBody EXCEPT ![c] = body]
                  /\ UNCHANGED resp
          /\ session' = SessionAfter(c, upS)
          /\ dbAnswered' = (dbAnswered \/ AnsweredBy(cs))
  /\ UNCHANGED <<calls, cfgVars, pending, dbVars, memVars, created, effects>>

\* a body with the two fields of the registration form
RegisterCheck(c) ==
  \E username \in Usernames, password \in RegPasswords :
    RegisterCheckBody(c, [password |-> password, username |-> username])

\* the body of the first registration, and that body with an id field
FirstBody == [password |-> "pw1", username |-> "alice"]

RegisterCheckId(c) ==
  \E id \in BodyIds :
    RegisterCheckBody(c, [id |-> id,
                          password |-> FirstBody.password,
                          username |-> FirstBody.username])

\* that body with a role field
RegisterCheckRole(c) ==
  \E role \in BodyRoles :
    RegisterCheckBody(c, [password |-> FirstBody.password,
                          username |-> FirstBody.username, role |-> role])

\* req.login(user, callback): the session is regenerated, the user id is
\* written to it and it is saved; the callback gets the error of a step that
\* failed, and the session is then left without a passport user
LoginOutcomes == {"ok", "err"}

\* the error middleware answers err.status || 500 with { message }
InternalError == Json([message |-> "Internal Server Error"])

\* from the hash to the response: createUser({ ...req.body, password }),
\* req.login, then 201 or next(err)
RegisterCreate(c) ==
  /\ regPc[c] = "hashing"
  /\ Len(created) < MaxRecords
  /\ \E salt \in Salts, up \in DbUp, login \in LoginOutcomes :
       LET insertUser ==
             [regBody[c] EXCEPT
                !.password = hashPassword(regBody[c].password, salt)]
           r == createUser(insertUser, up)
           cs == <<CreateCall("createUser", insertUser, r,
                              MemCreateUser(insertUser).result,
                              LoginHeld(insertUser.username))>>
       IN /\ dbUsers' = r.table
          /\ dbSeq' = r.seq
          /\ users' = r.map
          /\ currentId' = r.currentId
          /\ created' = Append(created, [rec |-> r.result, served |-> r.served,
                                         kind |-> "user"])
          /\ session' = [session EXCEPT
                            ![c] = IF login = "ok" THEN r.result.id ELSE 0]
          /\ resp' = IF login = "ok"
                     THEN Response(c, "register", 201, Json(r.result),
                                   regBody[c])
                     ELSE Response(c, "register", 500, InternalError,
                                   regBody[c])
          /\ dbAnswered' = (dbAnswered \/ AnsweredBy(cs))
  /\ regPc' = [regPc EXCEPT ![c] = "idle"]
  /\ regBody' = [regBody EXCEPT ![c] = NoReq]
  /\ UNCHANGED <<calls, cfgVars, pending, dbPatients, dbInteractions, patients,
                 drugInteractions, effects>>

\* ------------------------------------------------------ POST /api/login
\* passport.authenticate("local"): the verify callback, then req.login and
\* 200 or next(err), or 401 Unauthorized
Login(c) ==
  /\ \E username \in Usernames, password \in Passwords,
        upS \in SessUp(c), up \in DbUp :
       LET user == getUserByUsername(username, up)
           ok == user # Undefined /\ comparePasswords(password, user.password)
       IN \E login \in Given(ok, LoginOutcomes) :
       LET body == [password |-> password, username |-> username]
           cs == SessionCalls(c, upS) \o
                 <<ReadCall("getUserByUsername", username, up, user,
                            MemGetUserByUsername(username))>>
       IN /\ IF ok
             THEN /\ session' = [session EXCEPT
                                    ![c] = IF login = "ok" THEN user.id
                                           ELSE 0]
                  /\ resp' = IF login = "ok"
                             THEN Response(c, "login", 200, Json(user), body)
                             ELSE Response(c, "login", 500, InternalError,
                                           body)
             ELSE /\ session' = SessionAfter(c, upS)
                  /\ resp' = Response(c, "login", 401, Text("Unauthorized"),
                                      body)
          /\ dbAnswered' = (dbAnswered \/ AnsweredBy(cs))
  /\ UNCHANGED <<calls, cfgVars, pending, dbVars, memVars, regVars, created,
                 effects>>

\* ----------------------------------------------------- POST /api/logout
\* a logout that answers 200 and leaves the passport user in the session
LogoutKeepsSession(c) ==
  /\ \E upS \in SessUp(c) :
       /\ dbAnswered' = (dbAnswered \/ AnsweredBy(SessionCalls(c, upS)))
       /\ session' = SessionAfter(c, upS)
  /\ resp' = Response(c, "logout", 200, Text("OK"), NoReq)
  /\ UNCHANGED <<calls, cfgVars, pending, dbVars, memVars, regVars, created,
                 effects>>

\* req.logout, then res.sendStatus(200)
Logout(c) ==
  /\ \E upS \in SessUp(c) :
       dbAnswered' = (dbAnswered \/ AnsweredBy(SessionCalls(c, upS)))
  /\ session' = [session EXCEPT ![c] = 0]
  /\ resp' = Response(c, "logout", 200, Text("OK"), NoReq)
  /\ UNCHANGED <<calls, cfgVars, pending, dbVars, memVars, regVars, created,
                 effects>>

\* -------------------------------------------------------- GET /api/user
CurrentUser(c) ==
  /\ \E upS \in SessUp(c) :
       LET cs == SessionCalls(c, upS)
       IN /\ resp' = IF isAuthenticated(c, upS)
                     THEN Response(c, "user", 200,
                                   Json(deserializeUser(c, upS)), NoReq)
                     ELSE Response(c, "user", 401, Text("Unauthorized"),
                                   NoReq)
          /\ session' = SessionAfter(c, upS)
          /\ dbAnswered' = (dbAnswered \/ AnsweredBy(cs))
  /\ UNCHANGED <<calls, cfgVars, pending, dbVars, memVars, regVars, created,
                 effects>>

\* the clinical routes may create one more record
ClinicalRoom ==
  /\ Len(created) < MaxRecords
  /\ Len(SelectSeq(created, LAMBDA e : e.kind # "user")) < MaxClinical

\* ------------------------------------------------------------ ai.ts
\* Each returns whether it threw, what it returned, and the number of calls
\* it made to the AI collaborator.
AiResult(throws, data, n) == [calls |-> n, throws |-> throws, data |-> data]
RateLimited == "API rate limit exceeded. Please try again later."

\* without an API key mock data; a failure other than 429, 401 or a network
\* failure is answered with fallback data
parseEHRData(ai) ==
  IF ~apiKey THEN AiResult(FALSE, "mock", 0)
  ELSE IF ai = "data" THEN AiResult(FALSE, "parsed", 1)
  ELSE IF ai = "throw" THEN AiResult(TRUE, RateLimited, 1)
  ELSE AiResult(FALSE, "fallback", 1)

\* checkDrugInteractions that asks the AI collaborator whatever the length
checkDrugInteractionsAlwaysAsks(medications, ai) ==
  IF ~apiKey THEN AiResult(FALSE, "mock", 0)
  ELSE IF ai = "data" THEN AiResult(FALSE, "found", 1)
  ELSE IF ai = "throw" THEN AiResult(TRUE, RateLimited, 1)
  ELSE AiResult(FALSE, "fallback", 1)

\* fewer than two medications: { interactions: [] } before any call
checkDrugInteractions(medications, ai) ==
  IF ~apiKey \/ Len(medications) < 2
  THEN IF Len(medications) < 2 THEN AiResult(FALSE, "none", 0)
       ELSE AiResult(FALSE, "mock", 0)
  ELSE IF ai = "data" THEN AiResult(FALSE, "found", 1)
  ELSE IF ai = "throw" THEN AiResult(TRUE, RateLimited, 1)
  ELSE AiResult(FALSE, "fallback", 1)

\* no check of the API key, and every failure is thrown
getRecommendations(ai) ==
  IF ai = "data" THEN AiResult(FALSE, "recommendations", 1)
  ELSE IF ai = "throw" THEN AiResult(TRUE, RateLimited, 1)
  ELSE AiResult(TRUE, "Failed to get recommendations", 1)

\* ---------------------------------------------------- POST /api/patients
\* isAuthenticated, the uploaded file, parseEHRData, insertPatientSchema,
\* createPatient, 201
Files == {NoField, "", "ehr"}        \* no file, an empty file, a file
FormIds == {NoField, "2"}            \* id field of the multipart form

\* a file check that lets an empty file through
NoFileContentOnlyAbsent(file) == file = NoField

\* !fileContent, for fileContent = req.file?.buffer.toString()
NoFileContent(file) == file \in {NoField, ""}

\* createInsertSchema(patients): name is a required string, id an optional
\* number; the text fields of a multipart form are strings
insertPatientSchema(body) == body.name # NoField /\ body.id = NoField

PostPatient(c) ==
  /\ \E upS \in SessUp(c) :
     LET auth == isAuthenticated(c, upS) IN
     \E file \in Given(auth, Files) :
     LET noFile == NoFileContent(file) IN
     \E ai \in Given(auth /\ ~noFile /\ apiKey, AiReplies) :
     LET ehr == parseEHRData(ai)
         validates == auth /\ ~noFile /\ ~ehr.throws IN
     \E name \in Given(validates, PatientNames \cup {NoField}),
        id \in Given(validates, FormIds) :
     LET body == [id |-> id, name |-> name, file |-> file]
         stores == validates /\ insertPatientSchema(body) IN
     \E up \in Given(stores, DbUp) :
       LET patientData == [name |-> name, ehrData |-> ehr.data]
           r == createPatient(patientData, up)
           cs == SessionCalls(c, upS) \o
                 (IF stores
                  THEN <<CreateCall("createPatient", patientData, r,
                                    MemCreatePatient(patientData).result,
                                    FALSE)>>
                  ELSE <<>>)
       IN /\ stores => ClinicalRoom
          /\ IF stores
             THEN /\ dbPatients' = r.table
                  /\ dbSeq' = r.seq
                  /\ patients' = r.map
                  /\ currentId' = r.currentId
                  /\ created' = Append(created,
                                       [rec |-> r.result,
                                        served |-> r.served,
                                        kind |-> "patient"])
                  /\ resp' = Response(c, "postPatient", 201, Json(r.result),
                                      body)
             ELSE /\ UNCHANGED <<dbPatients, dbSeq, patients, currentId,
                                 created>>
                  /\ resp' =
                       IF ~auth
                       THEN Response(c, "postPatient", 401,
                                     Text("Unauthorized"), NoReq)
                       ELSE IF noFile
                       THEN Response(c, "postPatient", 400,
                                     Json([error |-> "No EHR file provided"]),
                                     body)
                       ELSE IF ehr.throws
                       THEN Response(c, "postPatient", 400,
                                     Json([error |-> ehr.data]), body)
                       ELSE Response(c, "postPatient", 400,
                                     Json([error |-> "validation"]), body)
          /\ effects' = Effects(session[c], cs,
                                IF auth /\ ~noFile THEN ehr.calls ELSE 0, ai)
          /\ session' = SessionAfter(c, upS)
          /\ dbAnswered' = (dbAnswered \/ AnsweredBy(cs))
  /\ UNCHANGED <<calls, cfgVars, pending, dbUsers, dbInteractions, users,
                 drugInteractions, regVars>>

\* ----------------------------------------------------- GET /api/patients
\* GET /api/patients without its isAuthenticated check
GetPatientsNoAuth(c) ==
  /\ \E upS \in SessUp(c), up \in DbUp :
       LET cs == SessionCalls(c, upS) \o
                 <<ReadCall("getPatients", NoField, up, getPatients(up),
                            patients)>>
       IN /\ resp' = Response(c, "getPatients", 200, Json(getPatients(up)),
                              NoReq)
          /\ effects' = Effects(session[c], cs, 0, "none")
          /\ session' = SessionAfter(c, upS)
          /\ dbAnswered' = (dbAnswered \/ AnsweredBy(cs))
  /\ UNCHANGED <<calls, cfgVars, pending, dbVars, memVars, regVars, created>>

GetPatients(c) ==
  /\ \E upS \in SessUp(c), up \in DbUp :
       LET auth == isAuthenticated(c, upS)
           cs == SessionCalls(c, upS) \o
                 (IF auth
                  THEN <<ReadCall("getPatients", NoField, up, getPatients(up),
                                  patients)>>
                  ELSE <<>>)
       IN /\ resp' = IF auth
                     THEN Response(c, "getPatients", 200,
                                   Json(getPatients(up)), NoReq)
                     ELSE Response(c, "getPatients", 401,
                                   Text("Unauthorized"), NoReq)
          /\ effects' = Effects(session[c], cs, 0, "none")
          /\ session' = SessionAfter(c, upS)
          /\ dbAnswered' = (dbAnswered \/ AnsweredBy(cs))
  /\ UNCHANGED <<calls, cfgVars, pending, dbVars, memVars, regVars, created>>

\* ------------------------------------------------- GET /api/patients/:id
GetPatient(c) ==
  /\ \E upS \in SessUp(c) :
     \E id \in Given(isAuthenticated(c, upS), 1..MaxRecords),
        up \in Given(isAuthenticated(c, upS), DbUp) :
       LET auth == isAuthenticated(c, upS)
           patient == getPatientById(id, up)
           cs == SessionCalls(c, upS) \o
                 (IF auth
                  THEN <<ReadCall("getPatientById", id, up, patient,
                                  MemGetPatientById(id))>>
                  ELSE <<>>)
       IN /\ resp' = IF ~auth
                     THEN Response(c, "getPatient", 401,
                                   Text("Unauthorized"), NoReq)
                     ELSE IF patient = Undefined
                     THEN Response(c, "getPatient", 404,
                                   Json([error |-> "Patient not found"]),
                                   [id |-> id])
                     ELSE Response(c, "getPatient", 200, Json(patient),
                                   [id |-> id])
          /\ effects' = Effects(session[c], cs, 0, "none")
          /\ session' = SessionAfter(c, upS)
          /\ dbAnswered' = (dbAnswered \/ AnsweredBy(cs))
  /\ UNCHANGED <<calls, cfgVars, pending, dbVars, memVars, regVars, created>>

\* ----------------------------------------- GET /api/patients/:id/history
GetHistory(c) ==
  /\ \E upS \in SessUp(c) :
     \E id \in Given(isAuthenticated(c, upS), 1..MaxRecords),
        up \in Given(isAuthenticated(c, upS), DbUp) :
     \E upI \in Given(isAuthenticated(c, upS)
                        /\ getPatientById(id, up) # Undefined, DbUp) :
       LET auth == isAuthenticated(c, upS)
           patient == getPatientById(id, up)
           found == auth /\ patient # Undefined
           interactions == getPatientDrugInteractions(id, upI)
           cs == SessionCalls(c, upS) \o
                 (IF auth
                  THEN <<ReadCall("getPatientById", id, up, patient,
                                  MemGetPatientById(id))>>
                  ELSE <<>>) \o
                 (IF found
                  THEN <<ReadCall("getPatientDrugInteractions", id, upI,
                                  interactions,
                                  MemGetPatientDrugInteractions(id))>>
                  ELSE <<>>)
       IN /\ resp' = IF ~auth
                     THEN Response(c, "getHistory", 401,
                                   Text("Unauthorized"), NoReq)
                     ELSE IF ~found
                     THEN Response(c, "getHistory", 404,
                                   Json([error |-> "Patient not found"]),
                                   [id |-> id])
                     ELSE Response(c, "getHistory", 200,
                                   Json([patientInfo |-> patient,
                                         drugInteractionHistory |->
                                           interactions]),
                                   [id |-> id])
          /\ effects' = Effects(session[c], cs, 0, "none")
          /\ session' = SessionAfter(c, upS)
          /\ dbAnswered' = (dbAnswered \/ AnsweredBy(cs))
  /\ UNCHANGED <<calls, cfgVars, pending, dbVars, memVars, regVars, created>>

\* -------------------------------------------- POST /api/drug-interactions
\* isAuthenticated, drugInteractionSchema (valid), checkDrugInteractions,
\* createDrugInteraction, 200.  patientId 0 is also the absent patientId:
\* the handler stores patientId || 0.
PostDrugInteraction(c) ==
  /\ \E upS \in SessUp(c) :
     LET auth == isAuthenticated(c, upS) IN
     \E valid \in Given(auth, BOOLEAN) :
     \E medications \in Given(auth /\ valid, MedLists),
        patientId \in Given(auth /\ valid, PatientIds) :
     \E ai \in Given(auth /\ valid /\ apiKey /\ Len(medications) >= 2,
                     AiReplies) :
     LET body == [patientId |-> patientId, medications |-> medications,
                  valid |-> valid]
         result == checkDrugInteractions(medications, ai)
         stores == auth /\ valid /\ ~result.throws IN
     \E up \in Given(stores, DbUp) :
       LET interactionData ==
             [patientId |-> patientId,
              medications |-> medications,
              interactionsDetected |-> result.data]
           r == createDrugInteraction(interactionData, up)
           cs == SessionCalls(c, upS) \o
                 (IF stores
                  THEN <<CreateCall("createDrugInteraction", interactionData,
                                    r,
                                    MemCreateDrugInteraction(
                                      interactionData).result,
                                    FALSE)>>
                  ELSE <<>>)
       IN /\ stores => ClinicalRoom
          /\ IF stores
             THEN /\ dbInteractions' = r.table
                  /\ dbSeq' = r.seq
                  /\ drugInteractions' = r.map
                  /\ currentId' = r.currentId
                  /\ created' = Append(created,
                                       [rec |-> r.result,
                                        served |-> r.served,
                                        kind |-> "interaction"])
                  /\ resp' = Response(c, "postInteraction", 200,
                                      Json(r.result), body)
             ELSE /\ UNCHANGED <<dbInteractions, dbSeq, drugInteractions,
                                 currentId, created>>
                  /\ resp' =
                       IF ~auth
                       THEN Response(c, "postInteraction", 401,
                                     Text("Unauthorized"), NoReq)
                       ELSE IF ~valid
                       THEN Response(c, "postInteraction", 400,
                                     Json([error |-> "validation"]), body)
                       ELSE Response(c, "postInteraction", 400,
                                     Json([error |-> result.data]), body)
          /\ effects' = Effects(session[c], cs,
                                IF auth /\ valid THEN result.calls ELSE 0,
                                ai)
          /\ session' = SessionAfter(c, upS)
          /\ dbAnswered' = (dbAnswered \/ AnsweredBy(cs))
  /\ UNCHANGED <<calls, cfgVars, pending, dbUsers, dbPatients, users, patients,
                 regVars>>

\* ---------------------------------------------- POST /api/recommendations
\* isAuthenticated, recommendationSchema (valid), getRecommendations, 200
PostRecommendations(c) ==
  /\ \E upS \in SessUp(c) :
     \E valid \in Given(isAuthenticated(c, upS), BOOLEAN) :
     \E ai \in Given(isAuthenticated(c, upS) /\ valid, AiReplies) :
       LET auth == isAuthenticated(c, upS)
           body == [valid |-> valid]
           result == getRecommendations(ai)
           cs == SessionCalls(c, upS)
       IN /\ resp' =
               IF ~auth
               THEN Response(c, "postRecommendations", 401,
                             Text("Unauthorized"), NoReq)
               ELSE IF ~valid
               THEN Response(c, "postRecommendations", 400,
                             Json([error |-> "validation"]), body)
               ELSE IF result.throws
               THEN Response(c, "postRecommendations", 400,
                             Json([error |-> result.data]), body)
               ELSE Response(c, "postRecommendations", 200,
                             Json(result.data), body)
          /\ effects' = Effects(session[c], cs,
                                IF auth /\ valid THEN result.calls ELSE 0,
                                ai)
          /\ session' = SessionAfter(c, upS)
          /\ dbAnswered' = (dbAnswered \/ AnsweredBy(cs))
  /\ UNCHANGED <<calls, cfgVars, pending, dbVars, memVars, regVars, created>>

\* ------------------------------------------------ POST /api/analyze-image
\* The handler has no isAuthenticated check.  analyzeImage posts the image
\* URL to the chat completions endpoint with the key written in the source,
\* and throws when the response is not ok.
ImageUrls == {NoField, "", "http://image"}
ImageReplies == {"data", "throw"}

analyzeImage(ai) ==
  IF ai = "data" THEN AiResult(FALSE, "analysis", 1)
  ELSE AiResult(TRUE, "OpenRouter API request failed", 1)

AnalyzeImage(c) ==
  /\ \E upS \in SessUp(c), imageUrl \in ImageUrls :
     LET noUrl == imageUrl \in {NoField, ""} IN
     \E ai \in Given(~noUrl, ImageReplies) :
       LET body == [imageUrl |-> imageUrl]
           analysis == analyzeImage(ai)
           cs == SessionCalls(c, upS)
       IN /\ resp' =
               IF noUrl
               THEN Response(c, "analyzeImage", 400,
                             Json([error |-> "Image URL is required"]), body)
               ELSE IF analysis.throws
               THEN Response(c, "analyzeImage", 400,
                             Json([error |-> analysis.data]), body)
               ELSE Response(c, "analyzeImage", 200, Json(analysis.data),
                             body)
          /\ effects' = Effects(session[c], cs,
                                IF noUrl THEN 0 ELSE analysis.calls, ai)
          /\ session' = SessionAfter(c, upS)
          /\ dbAnswered' = (dbAnswered \/ AnsweredBy(cs))
  /\ UNCHANGED <<calls, cfgVars, pending, dbVars, memVars, regVars, created>>

\* ------------------------------------------- Storage called by any caller
\* One action per operation of IStorage, with any argument, each durable
\* call free to fail.
Hashes == {hashPassword(p, s) : p \in RegPasswords, s \in Salts}
InsertUsers == [password : Hashes, username : Usernames]
InsertPatients == [name : PatientNames, ehrData : {"parsed"}]
InsertInteractions == [patientId : PatientIds, medications : {<<"A", "B">>},
                       interactionsDetected : {"found"}]

StorageRead(call) ==
  /\ calls' = <<call>>
  /\ dbAnswered' = (dbAnswered \/ call.served = "db")
  /\ UNCHANGED <<cfgVars, pending, dbVars, memVars, session, regVars, resp,
                 created,
                 effects>>

CallGetUser ==
  \E id \in 1..MaxRecords, up \in DbUp :
    StorageRead(ReadCall("getUser", id, up, getUser(id, up), MemGetUser(id)))

CallGetUserByUsername ==
  \E username \in Usernames, up \in DbUp :
    StorageRead(ReadCall("getUserByUsername", username, up,
                         getUserByUsername(username, up),
                         MemGetUserByUsername(username)))

CallGetPatients ==
  \E up \in DbUp :
    StorageRead(ReadCall("getPatients", NoField, up, getPatients(up),
                         patients))

CallGetPatientById ==
  \E id \in 1..MaxRecords, up \in DbUp :
    StorageRead(ReadCall("getPatientById", id, up, getPatientById(id, up),
                         MemGetPatientById(id)))

CallGetPatientDrugInteractions ==
  \E patientId \in PatientIds, up \in DbUp :
    StorageRead(ReadCall("getPatientDrugInteractions", patientId, up,
                         getPatientDrugInteractions(patientId, up),
                         MemGetPatientDrugInteractions(patientId)))

CallCreateUser ==
  /\ Len(created) < MaxRecords
  /\ \E insertUser \in InsertUsers, up \in DbUp :
       LET r == createUser(insertUser, up)
       IN /\ dbUsers' = r.table
          /\ dbSeq' = r.seq
          /\ users' = r.map
          /\ currentId' = r.currentId
          /\ created' = Append(created, [rec |-> r.result, served |-> r.served,
                                         kind |-> "user"])
          /\ calls' = <<CreateCall("createUser", insertUser, r,
                                   MemCreateUser(insertUser).result,
                                   LoginHeld(insertUser.username))>>
          /\ dbAnswered' = (dbAnswered \/ r.served = "db")
  /\ UNCHANGED <<cfgVars, pending, dbPatients, dbInteractions, patients,
                 drugInteractions, session, regVars, resp, effects>>

CallCreatePatient ==
  /\ Len(created) < MaxRecords
  /\ \E patient \in InsertPatients, up \in DbUp :
       LET r == createPatient(patient, up)
       IN /\ dbPatients' = r.table
          /\ dbSeq' = r.seq
          /\ patients' = r.map
          /\ currentId' = r.currentId
          /\ created' = Append(created, [rec |-> r.result,
                                         served |-> r.served,
                                         kind |-> "patient"])
          /\ calls' = <<CreateCall("createPatient", patient, r,
                                   MemCreatePatient(patient).result, FALSE)>>
          /\ dbAnswered' = (dbAnswered \/ r.served = "db")
  /\ UNCHANGED <<cfgVars, pending, dbUsers, dbInteractions, users,
                 drugInteractions,
                 session, regVars, resp, effects>>

CallCreateDrugInteraction ==
  /\ Len(created) < MaxRecords
  /\ \E interaction \in InsertInteractions, up \in DbUp :
       LET r == createDrugInteraction(interaction, up)
       IN /\ dbInteractions' = r.table
          /\ dbSeq' = r.seq
          /\ drugInteractions' = r.map
          /\ currentId' = r.currentId
          /\ created' = Append(created, [rec |-> r.result,
                                         served |-> r.served,
                                         kind |-> "interaction"])
          /\ calls' = <<CreateCall("createDrugInteraction", interaction, r,
                                   MemCreateDrugInteraction(interaction).result,
                                   FALSE)>>
          /\ dbAnswered' = (dbAnswered \/ r.served = "db")
  /\ UNCHANGED <<cfgVars, pending, dbUsers, dbPatients, users, patients,
                 session,
                 regVars, resp, effects>>

CreateOps == {"createUser", "createPatient", "createDrugInteraction"}

\* ----------------------------------- create calls suspended at their await
\* A create call runs without interruption up to await db.insert(...) and,
\* when the promise settles, from there to its return: the in-memory code
\* after the catch block has no await.  Without a database the call has no
\* await and runs to its return at once.
CreateArgs(op) ==
  CASE op = "createUser" -> InsertUsers
    [] op = "createPatient" -> InsertPatients
    [] op = "createDrugInteraction" -> InsertInteractions

KindOf(op) ==
  CASE op = "createUser" -> "user"
    [] op = "createPatient" -> "patient"
    [] op = "createDrugInteraction" -> "interaction"

Create(op, arg, up) ==
  CASE op = "createUser" -> createUser(arg, up)
    [] op = "createPatient" -> createPatient(arg, up)
    [] op = "createDrugInteraction" -> createDrugInteraction(arg, up)

\* the call runs from the settled insert, or from its start, to its return
FinishCreate(op, arg, up) ==
  LET r == Create(op, arg, up)
      kind == KindOf(op)
  IN /\ dbUsers' = IF kind = "user" THEN r.table ELSE dbUsers
     /\ dbPatients' = IF kind = "patient" THEN r.table ELSE dbPatients
     /\ dbInteractions' =
          IF kind = "interaction" THEN r.table ELSE dbInteractions
     /\ dbSeq' = r.seq
     /\ users' = IF kind = "user" THEN r.map ELSE users
     /\ patients' = IF kind = "patient" THEN r.map ELSE patients
     /\ drugInteractions' =
          IF kind = "interaction" THEN r.map ELSE drugInteractions
     /\ currentId' = r.currentId
     /\ created' = Append(created, [rec |-> r.result, served |-> r.served,
                                    kind |-> kind])
     /\ dbAnswered' = (dbAnswered \/ r.served = "db")

\* ticket: the number of create calls started before this one
StartCreate ==
  /\ Len(created) + Len(pending) < MaxRecords
  /\ \E op \in CreateOps :
       \E arg \in CreateArgs(op) :
         IF dbConfigured
         THEN /\ pending' = Append(pending,
                                   [op |-> op, arg |-> arg,
                                    ticket |-> Len(created) + Len(pending)])
              /\ UNCHANGED <<dbVars, memVars, created, dbAnswered>>
         ELSE /\ FinishCreate(op, arg, FALSE)
              /\ UNCHANGED pending
  /\ UNCHANGED <<cfgVars, session, regVars, resp, effects, calls>>

SettleCreate ==
  /\ \E i \in 1..Len(pending), up \in DbUp :
       /\ FinishCreate(pending[i].op, pending[i].arg, up)
       /\ pending' = SubSeq(pending, 1, i - 1) \o
                     SubSeq(pending, i + 1, Len(pending))
  /\ UNCHANGED <<cfgVars, session, regVars, resp, effects, calls>>

\* ------------------------------------------------------- specifications
\* Storage under any sequence of calls
Next ==
  \/ CallGetUser
  \/ CallGetUserByUsername
  \/ CallCreateUser
  \/ CallGetPatients
  \/ CallGetPatientById
  \/ CallCreatePatient
  \/ CallCreateDrugInteraction
  \/ CallGetPatientDrugInteractions

Spec == InitKeySet /\ [][Next]_vars

\* the authentication routes, requests interleaved at the register await
NextAuth ==
  \/ \E c \in Clients : RegisterCheck(c)
  \/ \E c \in Clients : RegisterCreate(c)
  \/ \E c \in Clients : Login(c)
  \/ \E c \in Clients : Logout(c)
  \/ \E c \in Clients : CurrentUser(c)

SpecAuth == InitKeySet /\ [][NextAuth]_vars

\* registration and POST /api/patients of one browser, with request bodies
\* that may carry an id field or a role field
NextRegisterId ==
  \/ RegisterCheckBody("c1", FirstBody)
  \/ RegisterCheckId("c1")
  \/ RegisterCheckRole("c1")
  \/ RegisterCreate("c1")
  \/ PostPatient("c1")

SpecRegisterId == InitKeySet /\ [][NextRegisterId]_vars

\* the clinical routes: a browser registers the first account of the
\* process and calls the clinical routes, before and after

NextClinic ==
  \/ created = <<>> /\ RegisterCheckBody("c1", FirstBody)
  \/ RegisterCreate("c1")
  \/ PostPatient("c1")
  \/ GetPatients("c1")
  \/ GetPatient("c1")
  \/ GetHistory("c1")
  \/ PostDrugInteraction("c1")
  \/ PostRecommendations("c1")
  \/ AnalyzeImage("c1")

SpecClinic == Init /\ [][NextClinic]_vars

\* concurrent create calls, interleaved at their await
NextAwait ==
  \/ StartCreate
  \/ SettleCreate

SpecAwait == InitKeySet /\ [][NextAwait]_vars

\* ================================================================ claims

\* what the in-memory maps answer to a read call
MemAnswer(call) ==
  CASE call.op = "getUser" -> MemGetUser(call.arg)
    [] call.op = "getUserByUsername" -> MemGetUserByUsername(call.arg)
    [] call.op = "getPatients" -> patients
    [] call.op = "getPatientById" -> MemGetPatientById(call.arg)
    [] call.op = "getPatientDrugInteractions" ->
         MemGetPatientDrugInteractions(call.arg)

\* the map a create call writes
MemMapOf(call) ==
  CASE call.op = "createUser" -> users
    [] call.op = "createPatient" -> patients
    [] call.op = "createDrugInteraction" -> drugInteractions

CreatedOf(kind) ==
  SelectSeq(created, LAMBDA e : e.kind = kind)

\* C1: a Storage call whose durable call failed returns what the same call
\* returns from the in-memory maps (so the failure is not propagated): a
\* read returns the in-memory answer; a create returns the record built from
\* the in-memory counter, and that record is the last one of its map.
C1_FallbackServesFromMemory ==
  \A i \in 1..Len(calls) :
    calls[i].dbFailed =>
      IF calls[i].op \in CreateOps
      THEN /\ calls[i].result = calls[i].mem
           /\ calls[i].result.id = currentId - 1
           /\ Len(MemMapOf(calls[i])) > 0
           /\ MemMapOf(calls[i])[Len(MemMapOf(calls[i]))] = calls[i].result
      ELSE calls[i].result = MemAnswer(calls[i])

\* a getUserByUsername whose durable call failed found the account in memory
C1_Witness ==
  /\ Len(calls) = 1
  /\ calls[1].op = "getUserByUsername"
  /\ calls[1].dbFailed
  /\ calls[1].result # Undefined

\* C2: the identifiers createPatient returned are strictly increasing in
\* call order, whichever backend served each call.
C2_PatientIdsStrictlyIncreasing ==
  \A i, j \in 1..Len(CreatedOf("patient")) :
    i < j => CreatedOf("patient")[i].rec.id < CreatedOf("patient")[j].rec.id

\* C3: within each entity type no two records returned by create calls carry
\* the same identifier.
C3_IdsUniquePerType ==
  \A i, j \in 1..Len(created) :
    (i # j /\ created[i].kind = created[j].kind)
      => created[i].rec.id # created[j].rec.id

\* C4: Storage never holds two accounts with the same login name.
C4_LoginNamesUnique ==
  LET accounts == users \o dbUsers
  IN \A i, j \in 1..Len(accounts) :
       i # j => accounts[i].username # accounts[j].username

\* C5: a createUser call whose login name is already held by a stored
\* account fails: it returns no account and stores no record.
C5_DuplicateCreateUserFails ==
  \A i \in 1..Len(calls) :
    (calls[i].op = "createUser" /\ calls[i].held)
      => /\ "username" \notin DOMAIN calls[i].result
         /\ \A k \in 1..Len(users) : users[k] # calls[i].result
         /\ \A k \in 1..Len(dbUsers) : dbUsers[k] # calls[i].result

\* C6: after createUser returned an account, every getUserByUsername of its
\* login name returns an account with that login name and that hash.
C6_CreatedAccountFoundByLogin ==
  \A i \in 1..Len(CreatedOf("user")) : \A up \in DbUp :
    LET account == CreatedOf("user")[i].rec
        found == getUserByUsername(account.username, up)
    IN /\ found # Undefined
       /\ found.username = account.username
       /\ found.password = account.password

\* C7: while the durable backend is unreachable (not configured, or no
\* durable call has succeeded), every account createUser returned is the
\* account getUserByUsername and getUser return.
C7_UnreachableBackendAccountRetrievable ==
  (~dbConfigured \/ ~dbAnswered) =>
    \A i \in 1..Len(CreatedOf("user")) :
      LET account == CreatedOf("user")[i].rec
      IN /\ getUser(account.id, FALSE) = account
         /\ getUserByUsername(account.username, FALSE) = account

\* C8: getPatientDrugInteractions(pid) returns exactly the checks created
\* with patientId = pid, in creation order.
ChecksCreatedFor(patientId) ==
  LET mine == SelectSeq(created, LAMBDA e : e.kind = "interaction"
                                            /\ e.rec.patientId = patientId)
  IN [i \in 1..Len(mine) |-> mine[i].rec]

C8_HistoryIsExactlyCreatedChecks ==
  \A patientId \in PatientIds : \A up \in DbUp :
    getPatientDrugInteractions(patientId, up) = ChecksCreatedFor(patientId)

\* C9: a login with the correct password of an account createUser returned
\* succeeds, and every failed login gets the same response, 401 Unauthorized.
LoginOfExistingAccount ==
  /\ resp.route = "login"
  /\ \E i \in 1..Len(CreatedOf("user")) :
       /\ CreatedOf("user")[i].rec.username = resp.req.username
       /\ comparePasswords(resp.req.password,
                           CreatedOf("user")[i].rec.password)

C9_LoginSucceedsAndFailuresAlike ==
  /\ LoginOfExistingAccount => resp.status = 200
  /\ (resp.route = "login" /\ resp.status # 200)
       => (resp.status = 401 /\ resp.body = Text("Unauthorized"))

\* C10: no response of register, login or the current-user route carries the
\* stored credential hash.
C10_ResponsesOmitCredential ==
  (resp.route \in {"register", "login", "user"} /\ resp.body.kind = "json")
    => "password" \notin DOMAIN resp.body.value

\* the routes that start with the isAuthenticated check
ClinicalRoutes == {"getPatients", "postPatient", "getPatient", "getHistory",
                   "postInteraction", "postRecommendations"}

\* C11: a request to one of the six clinical routes whose session holds no
\* passport user is answered 401 and calls neither Storage nor the AI
\* collaborator; and whatever the session held, a request answered 401 made
\* no AI call and no Storage call but the session's own account lookup.
C11_NoSessionIs401WithoutCalls ==
  resp.route \in ClinicalRoutes =>
    /\ effects.session = 0 =>
         (resp.status = 401 /\ effects.storage = <<>> /\ effects.ai = 0)
    /\ resp.status = 401 =>
         (effects.ai = 0 /\ effects.storage \in {<<>>, <<"getUser">>})

\* a request without a session to GET /api/patients while a patient is stored
C11_Witness ==
  /\ resp.route = "getPatients"
  /\ resp.status = 401
  /\ effects.session = 0
  /\ Len(patients) + Len(dbPatients) > 0

\* the fields a create call was given: the record it returned, less the id
\* and the insert time
InputOf(e) == [f \in DOMAIN e.rec \ {"id", "createdAt"} |-> e.rec[f]]

\* the record a create call returned is held by the backend that served it
Stored(e) ==
  LET table == CASE e.kind = "user" -> dbUsers
                 [] e.kind = "patient" -> dbPatients
                 [] e.kind = "interaction" -> dbInteractions
      map == CASE e.kind = "user" -> users
               [] e.kind = "patient" -> patients
               [] e.kind = "interaction" -> drugInteractions
      held == IF e.served = "db" THEN table ELSE map
  IN \E k \in 1..Len(held) : held[k] = e.rec

\* C12: two create calls of the same operation with identical input return
\* two stored records with two distinct identifiers, whichever backend
\* served each call.
C12_CreateIsNotIdempotent ==
  \A i, j \in 1..Len(created) :
    (i < j /\ created[i].kind = created[j].kind
           /\ InputOf(created[i]) = InputOf(created[j]))
      => /\ created[i].rec.id # created[j].rec.id
         /\ Stored(created[i])
         /\ Stored(created[j])

\* C13: with the in-memory backend alone (no DATABASE_URL), the first patient
\* created through POST /api/patients is answered 201 with id 1, and the
\* k-th patient created has id k.
C13_FirstPatientHasIdOne ==
  ~dbConfigured =>
    /\ \A k \in 1..Len(CreatedOf("patient")) :
         CreatedOf("patient")[k].rec.id = k
    /\ (resp.route = "postPatient" /\ resp.status = 201
          /\ Len(CreatedOf("patient")) = 1)
         => resp.body.value.id = 1

\* C14: a GET /api/patients/i of an authenticated caller, made after POST
\* /api/patients returned a record with identifier i, is answered 200 with
\* that record.
C14_GetReturnsPostedPatient ==
  (resp.route = "getPatient" /\ resp.status # 401) =>
    \A k \in 1..Len(CreatedOf("patient")) :
      CreatedOf("patient")[k].rec.id = resp.req.id
        => (resp.status = 200
            /\ resp.body = Json(CreatedOf("patient")[k].rec))

\* C15: an interaction check of an authenticated caller with a valid body
\* of fewer than two medications is answered with a record whose findings
\* are empty, makes no AI call whether or not an API key is set, and the
\* record is stored.
C15_FewerThanTwoMedications ==
  (resp.route = "postInteraction" /\ resp.status # 401
     /\ resp.req.valid /\ Len(resp.req.medications) < 2)
    => /\ resp.status = 200
       /\ resp.body.value.interactionsDetected = "none"
       /\ effects.ai = 0
       /\ \/ \E k \in 1..Len(drugInteractions) :
               drugInteractions[k] = resp.body.value
          \/ \E k \in 1..Len(dbInteractions) :
               dbInteractions[k] = resp.body.value

\* a check of one medication, with the API key set
C15_Witness ==
  /\ apiKey
  /\ resp.route = "postInteraction"
  /\ resp.status = 200
  /\ Len(resp.req.medications) = 1

\* C16: a POST /api/patients of an authenticated caller with no file, or
\* with an empty file, is answered 400, makes no AI call and leaves the
\* patients of both backends, the counter and the sequences as they were.
C16_NoFileIs400 ==
  [][(resp'.route = "postPatient" /\ resp'.status # 401
        /\ resp'.req.file \in {NoField, ""})
       => /\ resp'.status = 400
          /\ effects'.ai = 0
          /\ "createPatient" \notin {effects'.storage[i] :
                                       i \in 1..Len(effects'.storage)}
          /\ UNCHANGED <<patients, dbPatients, currentId, dbSeq, created>>
     ]_vars

\* an empty file posted by a logged-in caller, with the API key set
C16_Witness ==
  /\ apiKey
  /\ resp.route = "postPatient"
  /\ resp.status = 400
  /\ resp.req.file = ""

\* C17: when the call to the AI collaborator made by POST /api/patients,
\* POST /api/drug-interactions or POST /api/recommendations fails, the
\* response is an error response (400 or 502) that carries a message.
C17_AiFailureIsSurfaced ==
  (resp.route \in {"postPatient", "postInteraction", "postRecommendations"}
     /\ effects.ai > 0 /\ effects.reply # "data")
    => /\ resp.status \in {400, 502}
       /\ resp.body.kind = "json"
       /\ "error" \in DOMAIN resp.body.value

\* C18: the step that completes a registration answers 201, stores the new
\* account and binds the caller's session to its identifier; and when the
\* response that follows a 201 of POST /api/register is that of a GET
\* /api/user on the same session, it is 200 with that account.
C18_RegisterBindsSession ==
  [][/\ (\A c \in Clients :
           (regPc[c] = "hashing" /\ regPc'[c] = "idle")
             => (/\ resp'.status = 201
                 /\ session'[c] = resp'.body.value.id
                 /\ \/ \E k \in 1..Len(users') :
                         users'[k] = resp'.body.value
                    \/ \E k \in 1..Len(dbUsers') :
                         dbUsers'[k] = resp'.body.value))
      /\ ((resp.route = "register" /\ resp.status = 201
             /\ resp'.route = "user" /\ resp'.client = resp.client)
            => (resp'.status = 200 /\ resp'.body = resp.body))
     ]_vars

OwnNextId(kind, served) ==
  IF served = "mem" THEN currentId
  ELSE IF kind = "user" THEN dbSeq.users
  ELSE dbSeq.patients

\* C20: the account stored by a registration and the patient stored by a
\* POST /api/patients carry the identifier Storage itself chose, on the
\* durable and on the in-memory path, whatever id field the body carried.
C20_IdsChosenByStorage ==
  [][Len(created') > Len(created) =>
       LET e == created'[Len(created')]
       IN e.kind \in {"user", "patient"}
            => e.rec.id = OwnNextId(e.kind, e.served)
     ]_vars


\* C21: the two backends can diverge.  A record that a create call returned
\* from the in-memory fallback is out of reach of every durable answer: while
\* the table of its type has no row with its identifier, the get-by-id call
\* answered by the durable backend returns nothing and the durable list does
\* not contain it.
C21_DurableAnswerMissesFallbackRecord ==
  \A i \in 1..Len(created) :
    LET e == created[i]
        id == e.rec.id
    IN (dbConfigured /\ e.served = "mem") =>
         /\ (e.kind = "user" /\ DbIdFree(dbUsers, id)) =>
              getUser(id, TRUE) = Undefined
         /\ (e.kind = "patient" /\ DbIdFree(dbPatients, id)) =>
              /\ getPatientById(id, TRUE) = Undefined
              /\ \A k \in 1..Len(getPatients(TRUE)) :
                   getPatients(TRUE)[k] # e.rec
         /\ (e.kind = "interaction" /\ DbIdFree(dbInteractions, id)) =>
              LET list == getPatientDrugInteractions(e.rec.patientId, TRUE)
              IN \A k \in 1..Len(list) : list[k] # e.rec

\* a patient returned by createPatient from the fallback, and then a
\* getPatientById of its identifier that the durable backend answers with
\* nothing
C21_Witness ==
  /\ Len(calls) = 1
  /\ calls[1].op = "getPatientById"
  /\ calls[1].served = "db"
  /\ calls[1].result = Undefined
  /\ \E i \in 1..Len(created) :
       /\ created[i].kind = "patient"
       /\ created[i].served = "mem"
       /\ created[i].rec.id = calls[1].arg
       /\ calls[1].mem = created[i].rec

Kinds == {"user", "patient", "interaction"}

\* the durable table and the in-memory map of a record type
TableOf(kind) ==
  CASE kind = "user" -> dbUsers
    [] kind = "patient" -> dbPatients
    [] kind = "interaction" -> dbInteractions

MapOf(kind) ==
  CASE kind = "user" -> users
    [] kind = "patient" -> patients
    [] kind = "interaction" -> drugInteractions

\* C22: each create call adds exactly one record to exactly one backend: the
\* record it returns is appended to the durable table when the insert
\* succeeds (maps and counter unchanged), otherwise to the in-memory map
\* (tables unchanged); no other step writes a table or a map, so a record
\* written by the fallback is never written to the durable backend later.
C22_CreateWritesOneBackend ==
  [][/\ Len(created') \in {Len(created), Len(created) + 1}
     /\ Len(created') = Len(created) =>
          /\ \A k \in Kinds : TableOf(k)' = TableOf(k) /\ MapOf(k)' = MapOf(k)
          /\ currentId' = currentId
     /\ Len(created') = Len(created) + 1 =>
          \A kind \in Kinds :
            LET e == created'[Len(created')]
            IN e.kind = kind =>
                 /\ \A k \in Kinds \ {kind} :
                      TableOf(k)' = TableOf(k) /\ MapOf(k)' = MapOf(k)
                 /\ e.served = "db" =>
                      /\ TableOf(kind)' = Append(TableOf(kind), e.rec)
                      /\ MapOf(kind)' = MapOf(kind)
                      /\ currentId' = currentId
                 /\ e.served = "mem" =>
                      /\ MapOf(kind)' = Append(MapOf(kind), e.rec)
                      /\ TableOf(kind)' = TableOf(kind)
    ]_vars

\* both paths have been taken: a patient went to the table and another
\* create, after a durable failure, to a map
C22_Witness ==
  /\ dbConfigured
  /\ \E i, j \in 1..Len(created) :
       /\ created[i].kind = "patient"
       /\ created[i].served = "db"
       /\ created[j].served = "mem"
       /\ Len(dbPatients) = 1
       /\ Len(users) + Len(patients) + Len(drugInteractions) = 1

\* C23: every account that createUser stores and returns has the role
\* "doctor", in the table and in the map, whatever role field the body of
\* the registration request carries.
C23_AccountsAreDoctors ==
  /\ \A i \in 1..Len(dbUsers) : dbUsers[i].role = "doctor"
  /\ \A i \in 1..Len(users) : users[i].role = "doctor"
  /\ \A i \in 1..Len(created) :
       created[i].kind = "user" => created[i].rec.role = "doctor"
  /\ (resp.route = "register" /\ resp.status = 201) =>
       resp.body.value.role = "doctor"

\* a registration whose body asked for another role was answered 201, after
\* accounts were created on the durable and on the in-memory path
C23_Witness ==
  /\ resp.route = "register"
  /\ resp.status = 201
  /\ "role" \in DOMAIN resp.req
  /\ resp.req.role # "doctor"
  /\ \E i, j \in 1..Len(created) :
       /\ created[i].kind = "user" /\ created[i].served = "db"
       /\ created[j].kind = "user" /\ created[j].served = "mem"

\* C24: every patient record in a 201 answer of POST /api/patients carries a
\* creation timestamp assigned at insert time, whichever backend stored it.
C24_PostedPatientHasCreatedAt ==
  (resp.route = "postPatient" /\ resp.status = 201) =>
    /\ "createdAt" \in DOMAIN resp.body.value
    /\ resp.body.value.createdAt = DefaultNow

IsPrefix(s, t) ==
  \/ t = s
  \/ Len(s) <= Len(t) /\ \A k \in 1..Len(s) : t[k] = s[k]

StoredAt(i) == Stored(created[i])

\* C25: stored records are immutable and never deleted: no Storage operation
\* removes or changes an entry of a table or a map, and a record that a
\* create call returns is held, from that step on, by the backend that
\* stored it.
C25_RecordsAreKept ==
  [][/\ \A kind \in Kinds :
          /\ IsPrefix(TableOf(kind), TableOf(kind)')
          /\ IsPrefix(MapOf(kind), MapOf(kind)')
     /\ IsPrefix(created, created')
     /\ \A i \in 1..MaxRecords + 1 :
          (i > Len(created) /\ i <= Len(created')) => StoredAt(i)'
    ]_vars

\* a record stored by the fallback and one stored by the durable backend are
\* still held after a later create wrote the same map again
C25_Witness ==
  /\ Len(created) >= 3
  /\ created[1].served = "mem"
  /\ created[2].served = "db"
  /\ created[3].served = "mem"
  /\ created[3].kind = created[1].kind
  /\ Len(MapOf(created[1].kind)) = 2
  /\ StoredAt(1) /\ StoredAt(2) /\ StoredAt(3)

\* every entry of the three in-memory maps, tagged with its map
MemEntries ==
  {<<kind, i>> : kind \in Kinds, i \in 1..MaxRecords + 1} \cap
  {x \in Kinds \X (1..MaxRecords + 1) : x[2] <= Len(MapOf(x[1]))}

\* C26: for every interleaving of concurrent create calls at their await,
\* the identifiers assigned by the in-memory path are pairwise distinct,
\* across the three maps, and no in-memory record is overwritten or lost:
\* the maps hold exactly the records the calls served from memory returned.
C26_MemoryIdsDistinctUnderInterleaving ==
  /\ \A x, y \in MemEntries :
       x # y => MapOf(x[1])[x[2]].id # MapOf(y[1])[y[2]].id
  /\ \A i \in 1..Len(created) : created[i].served = "mem" => StoredAt(i)
  /\ Cardinality(MemEntries) =
       Cardinality({i \in 1..Len(created) : created[i].served = "mem"})

\* with a database configured, two calls started after a third have already
\* run their in-memory code while the third is still suspended at its await
C26_Witness ==
  /\ \E k \in 1..Len(pending) : pending[k].ticket = 0
  /\ Len(created) = 2
  /\ created[1].served = "mem"
  /\ created[2].served = "mem"
  /\ currentId = 3

\* some stored patient, in the table or in the map, has this identifier
PatientStored(id) ==
  \/ \E k \in 1..Len(dbPatients) : dbPatients[k].id = id
  \/ \E k \in 1..Len(patients) : patients[k].id = id

AllChecks == dbInteractions \o drugInteractions
AllPatients == dbPatients \o patients

\* C27: every stored interaction check references the sentinel 0 or the
\* identifier of a stored patient, and a check stored with the sentinel is
\* in the history of no stored patient, whichever backend answers.
C27_ChecksReferenceStoredPatients ==
  /\ \A k \in 1..Len(AllChecks) :
       AllChecks[k].patientId = 0 \/ PatientStored(AllChecks[k].patientId)
  /\ \A p \in 1..Len(AllPatients), up \in DbUp :
       LET history == getPatientDrugInteractions(AllPatients[p].id, up)
       IN \A k \in 1..Len(history) : history[k].patientId # 0

\* C28: a session resolves to the account that authenticated it: while the
\* last response is the 200 of a login or the 201 of a registration, a
\* request on that session is attributed by deserializeUser, whether the
\* durable backend or the in-memory map serves getUser, to the account that
\* the response returned.
C28_SessionResolvesToItsAccount ==
  (\/ resp.route = "login" /\ resp.status = 200
   \/ resp.route = "register" /\ resp.status = 201) =>
    \A up \in DbUp : deserializeUser(resp.client, up) = resp.body.value

\* the routes whose handlers call an AI collaborator
AiRoutes == {"postPatient", "postInteraction", "postRecommendations",
             "analyzeImage"}

Rejected400 ==
  /\ resp.status = 400
  /\ resp.body \in {Json([error |-> "validation"]),
                    Json([error |-> "No EHR file provided"]),
                    Json([error |-> "Image URL is required"])}

\* C29: a request that called an AI collaborator had a session with a
\* passport user, and a request rejected for missing authentication (401) or
\* for an invalid payload (400) called none.
C29_AiCallsOnlyForValidSessionRequests ==
  resp.route \in AiRoutes =>
    /\ effects.ai > 0 => effects.session # 0
    /\ (resp.status = 401 \/ Rejected400) => effects.ai = 0

\* C30: a request answered with an error status leaves Storage as it was:
\* no table and no map gained a record and the in-memory counter did not
\* advance.
C30_ErrorLeavesStorageUnchanged ==
  [][(resp' # resp /\ resp'.status >= 400) =>
       /\ \A kind \in Kinds :
            TableOf(kind)' = TableOf(kind) /\ MapOf(kind)' = MapOf(kind)
       /\ currentId' = currentId
    ]_vars
====
